---- MODULE Spec2Model ----
(***************************************************************************)
(* Model of the genetic-algorithm scheduler (src/ga).                      *)
(*                                                                         *)
(* Fitness values are kept exactly, as integers in hundredths (0.5 is 50). *)
(* Averages are kept as the sum of the fitness list; the divisor is the    *)
(* length of the list, which is the same in every generation of a run.     *)
(* A Schedule object is a record [assignments, fitness]; its assignments   *)
(* map each activity to the address of an Assignment dict in the heap, so  *)
(* that sharing of an Assignment dict between two Schedules is visible.    *)
(***************************************************************************)
EXTENDS Integers, Sequences, FiniteSets, TLC

None == "None"

(***************************************************************************)
(* Bounds of the model.                                                    *)
(***************************************************************************)
\* largest population_size a run is started with
MaxPopulationSize == 2
\* largest max_generations / min_generations a run is started with
MaxGenerations == 3

(***************************************************************************)
(* The catalogue, src/ga/data.py.                                          *)
(***************************************************************************)
FACILITATORS ==
    << "Lock", "Glen", "Banks", "Richards", "Shaw",
       "Singer", "Uther", "Tyler", "Numen", "Zeldin" >>

TIME_SLOTS == << "10 AM", "11 AM", "12 PM", "1 PM", "2 PM", "3 PM" >>

ROOMS ==
    [ r \in { "Beach 201", "Beach 301", "Frank 119", "Loft 206", "Loft 310",
              "James 325", "Roman 201", "Roman 216", "Slater 003" } |->
        CASE r = "Beach 201"  -> 18
          [] r = "Beach 301"  -> 25
          [] r = "Frank 119"  -> 95
          [] r = "Loft 206"   -> 55
          [] r = "Loft 310"   -> 48
          [] r = "James 325"  -> 110
          [] r = "Roman 201"  -> 40
          [] r = "Roman 216"  -> 80
          [] r = "Slater 003" -> 32 ]

\* the keys of ACTIVITIES in the order the dict is written
ACTIVITY_ORDER ==
    << "SLA101A", "SLA101B", "SLA191A", "SLA191B", "SLA201", "SLA291",
       "SLA303", "SLA304", "SLA394", "SLA449", "SLA451" >>

Range(s) == { s[i] : i \in DOMAIN s }

ACTIVITIES ==
    [ a \in Range(ACTIVITY_ORDER) |->
        CASE a = "SLA101A" -> [ expected |-> 40,
                 preferred |-> {"Glen", "Lock", "Banks"},
                 other |-> {"Numen", "Richards", "Shaw", "Singer"} ]
          [] a = "SLA101B" -> [ expected |-> 35,
                 preferred |-> {"Glen", "Lock", "Banks"},
                 other |-> {"Numen", "Richards", "Shaw", "Singer"} ]
          [] a = "SLA191A" -> [ expected |-> 45,
                 preferred |-> {"Glen", "Lock", "Banks"},
                 other |-> {"Numen", "Richards", "Shaw", "Singer"} ]
          [] a = "SLA191B" -> [ expected |-> 40,
                 preferred |-> {"Glen", "Lock", "Banks"},
                 other |-> {"Numen", "Richards", "Shaw", "Singer"} ]
          [] a = "SLA201" -> [ expected |-> 60,
                 preferred |-> {"Glen", "Banks", "Zeldin", "Lock", "Singer"},
                 other |-> {"Richards", "Uther", "Shaw"} ]
          [] a = "SLA291" -> [ expected |-> 50,
                 preferred |-> {"Glen", "Banks", "Zeldin", "Lock", "Singer"},
                 other |-> {"Richards", "Uther", "Shaw"} ]
          [] a = "SLA303" -> [ expected |-> 25,
                 preferred |-> {"Glen", "Zeldin"},
                 other |-> {"Banks"} ]
          [] a = "SLA304" -> [ expected |-> 20,
                 preferred |-> {"Singer", "Uther"},
                 other |-> {"Richards"} ]
          [] a = "SLA394" -> [ expected |-> 15,
                 preferred |-> {"Tyler", "Singer"},
                 other |-> {"Richards", "Zeldin"} ]
          [] a = "SLA449" -> [ expected |-> 30,
                 preferred |-> {"Tyler", "Zeldin", "Uther"},
                 other |-> {"Zeldin", "Shaw"} ]
          [] a = "SLA451" -> [ expected |-> 90,
                 preferred |-> {"Lock", "Banks", "Zeldin"},
                 other |-> {"Tyler", "Singer", "Shaw", "Glen"} ] ]

PAIR_SLA101 == << "SLA101A", "SLA101B" >>
PAIR_SLA191 == << "SLA191A", "SLA191B" >>

CROSS_101_191 ==
    << << "SLA101A", "SLA191A" >>, << "SLA101A", "SLA191B" >>,
       << "SLA101B", "SLA191A" >>, << "SLA101B", "SLA191B" >> >>

(***************************************************************************)
(* The fitness function, src/ga/fitness.py.  Its argument is the           *)
(* assignments dict by value: activity -> [room, time, facilitator].       *)
(***************************************************************************)
Abs(x) == IF x < 0 THEN -x ELSE x

RECURSIVE SumOver(_, _)
SumOver(S, f) ==
    IF S = {} THEN 0
    ELSE LET x == CHOOSE y \in S : TRUE
         IN  f[x] + SumOver(S \ {x}, f)

TIME_INDEX == [ t \in Range(TIME_SLOTS) |->
                  (CHOOSE i \in DOMAIN TIME_SLOTS : TIME_SLOTS[i] = t) - 1 ]

_time_diff_hours(time_a, time_b) ==
    IF time_a \notin DOMAIN TIME_INDEX \/ time_b \notin DOMAIN TIME_INDEX
    THEN 0
    ELSE Abs(TIME_INDEX[time_a] - TIME_INDEX[time_b])

\* str.startswith("Beach") or str.startswith("Roman")
StartsWith(room_name, building) ==
    \/ building = "Beach" /\ room_name \in {"Beach 201", "Beach 301"}
    \/ building = "Roman" /\ room_name \in {"Roman 201", "Roman 216"}

_is_beach_or_roman(room_name) ==
    IF room_name = None THEN FALSE
    ELSE StartsWith(room_name, "Beach") \/ StartsWith(room_name, "Roman")

\* the bonus from four slots apart on: diff >= 4
_score_pair_time_spacing_FourOrMore(act1, act2, assignments) ==
    IF act1 \notin DOMAIN assignments \/ act2 \notin DOMAIN assignments
    THEN 0
    ELSE LET t1 == assignments[act1].time
             t2 == assignments[act2].time
         IN  IF t1 = None \/ t2 = None THEN 0
             ELSE IF t1 = t2 THEN -50
             ELSE IF _time_diff_hours(t1, t2) >= 4 THEN 50
             ELSE 0

_score_pair_time_spacing(act1, act2, assignments) ==
    IF act1 \notin DOMAIN assignments \/ act2 \notin DOMAIN assignments
    THEN 0
    ELSE LET t1 == assignments[act1].time
             t2 == assignments[act2].time
         IN  IF t1 = None \/ t2 = None THEN 0
             ELSE IF t1 = t2 THEN -50
             ELSE IF _time_diff_hours(t1, t2) > 4 THEN 50
             ELSE 0

\* the distance penalty with "or" where the code has "^"
_score_cross_101_191_EitherRoom(a101, a191, assignments) ==
    IF a101 \notin DOMAIN assignments \/ a191 \notin DOMAIN assignments
    THEN 0
    ELSE LET t1 == assignments[a101].time
             t2 == assignments[a191].time
             r1 == assignments[a101].room
             r2 == assignments[a191].room
             diff == _time_diff_hours(t1, t2)
         IN  IF t1 = None \/ t2 = None THEN 0
             ELSE IF t1 = t2 THEN -25
             ELSE IF diff = 1
                  THEN 50 + (IF /\ r1 # None
                                /\ r2 # None
                                /\ (_is_beach_or_roman(r1) \/ _is_beach_or_roman(r2))
                             THEN -40 ELSE 0)
             ELSE IF diff = 2 THEN 25
             ELSE 0

_score_cross_101_191(a101, a191, assignments) ==
    IF a101 \notin DOMAIN assignments \/ a191 \notin DOMAIN assignments
    THEN 0
    ELSE LET t1 == assignments[a101].time
             t2 == assignments[a191].time
             r1 == assignments[a101].room
             r2 == assignments[a191].room
             diff == _time_diff_hours(t1, t2)
         IN  IF t1 = None \/ t2 = None THEN 0
             ELSE IF t1 = t2 THEN -25
             ELSE IF diff = 1
                  THEN 50 + (IF /\ r1 # None
                                /\ r2 # None
                                /\ _is_beach_or_roman(r1) # _is_beach_or_roman(r2)
                             THEN -40 ELSE 0)
             ELSE IF diff = 2 THEN 25
             ELSE 0

\* the three counting maps built by the first loop of compute_schedule_fitness
room_time_counts(assignments, room, time) ==
    Cardinality({ a \in DOMAIN assignments :
                    /\ assignments[a].room # None
                    /\ assignments[a].time # None
                    /\ assignments[a].room = room
                    /\ assignments[a].time = time })

fac_time_counts(assignments, fac, time) ==
    Cardinality({ a \in DOMAIN assignments :
                    /\ assignments[a].facilitator # None
                    /\ assignments[a].time # None
                    /\ assignments[a].facilitator = fac
                    /\ assignments[a].time = time })

fac_total_counts(assignments, fac) ==
    Cardinality({ a \in DOMAIN assignments :
                    /\ assignments[a].facilitator # None
                    /\ assignments[a].facilitator = fac })

\* room size term: skipped when the room or the activity is not in the catalogue
RoomSizeTerm(activity, room) ==
    IF room # None /\ activity \in DOMAIN ACTIVITIES
    THEN LET expected == ACTIVITIES[activity].expected
         IN  IF room \in DOMAIN ROOMS /\ expected > 0
             THEN LET capacity == ROOMS[room]
                  IN  IF capacity < expected THEN -50
                      ELSE IF capacity > 3 * expected THEN -40
                      ELSE IF 2 * capacity > 3 * expected THEN -20
                      ELSE 30
             ELSE 0
    ELSE 0

PreferenceTerm(activity, fac) ==
    IF fac # None /\ activity \in DOMAIN ACTIVITIES
    THEN IF fac \in ACTIVITIES[activity].preferred THEN 50
         ELSE IF fac \in ACTIVITIES[activity].other THEN 20
         ELSE -10
    ELSE 0

\* the penalty shared out between the activities in conflict
RoomTimeConflictTerm_Split(assignments, room, time) ==
    IF room # None /\ time # None /\ room_time_counts(assignments, room, time) > 1
    THEN -(50 \div room_time_counts(assignments, room, time)) ELSE 0

RoomTimeConflictTerm(assignments, room, time) ==
    IF room # None /\ time # None /\ room_time_counts(assignments, room, time) > 1
    THEN -50 ELSE 0

SameTimeLoadTerm(assignments, fac, time) ==
    IF fac # None /\ time # None
    THEN LET count_ft == fac_time_counts(assignments, fac, time)
         IN  IF count_ft = 1 THEN 20
             ELSE IF count_ft > 1 THEN -20
             ELSE 0
    ELSE 0

\* the exception for Tyler without its test on the total
TotalLoadTerm_TylerNeverUnderused(assignments, fac) ==
    IF fac # None
    THEN LET total == fac_total_counts(assignments, fac)
         IN  IF total > 4 THEN -50
             ELSE IF total < 3
                  THEN IF fac = "Tyler" THEN 0 ELSE -40
             ELSE 0
    ELSE 0

TotalLoadTerm(assignments, fac) ==
    IF fac # None
    THEN LET total == fac_total_counts(assignments, fac)
         IN  IF total > 4 THEN -50
             ELSE IF total < 3
                  THEN IF fac = "Tyler"
                       THEN (IF total >= 2 THEN -40 ELSE 0)
                       ELSE -40
             ELSE 0
    ELSE 0

PairTerms(activity, assignments) ==
    (IF activity = PAIR_SLA101[1]
     THEN _score_pair_time_spacing(PAIR_SLA101[1], PAIR_SLA101[2], assignments)
     ELSE 0)
    + (IF activity = PAIR_SLA191[1]
       THEN _score_pair_time_spacing(PAIR_SLA191[1], PAIR_SLA191[2], assignments)
       ELSE 0)

CrossTerms(activity, assignments) ==
    SumOver({ i \in DOMAIN CROSS_101_191 : CROSS_101_191[i][1] = activity },
            [ i \in DOMAIN CROSS_101_191 |->
                _score_cross_101_191(CROSS_101_191[i][1], CROSS_101_191[i][2],
                                     assignments) ])

activity_scores(assignments) ==
    [ activity \in DOMAIN assignments |->
        LET room == assignments[activity].room
            time == assignments[activity].time
            fac  == assignments[activity].facilitator
        IN  RoomSizeTerm(activity, room)
            + PreferenceTerm(activity, fac)
            + RoomTimeConflictTerm(assignments, room, time)
            + SameTimeLoadTerm(assignments, fac, time)
            + TotalLoadTerm(assignments, fac)
            + PairTerms(activity, assignments)
            + CrossTerms(activity, assignments) ]

compute_schedule_fitness(assignments) ==
    SumOver(DOMAIN assignments, activity_scores(assignments))


(***************************************************************************)
(* Bounded inputs.  The engine is run on the first activities of the       *)
(* catalogue, and every random.choice is drawn from the sets below.        *)
(***************************************************************************)
\* the activities a Schedule holds in the model (a prefix of ACTIVITY_ORDER)
NumActivities == 2
\* random.choice(list(ROOMS.keys())), random.choice(TIME_SLOTS),
\* random.choice(FACILITATORS): the values drawn in the model
RoomChoices == { "Roman 201", "Slater 003" }
TimeChoices == { "10 AM" }
FacilitatorChoices == { "Lock" }
\* random.random(), in hundredths
RandomUnit == { 0, 50, 99 }
\* initial_mutation_rate, in hundredths
MutationRates == { 0, 1 }
CrossoverModes == { "single_point", "uniform" }

\* crossover.py: ACTIVITY_LIST = list(ACTIVITIES.keys())
ACTIVITY_LIST == SubSeq(ACTIVITY_ORDER, 1, NumActivities)
ActivityKeys == Range(ACTIVITY_LIST)

AssignmentValues ==
    [ room : RoomChoices, time : TimeChoices, facilitator : FacilitatorChoices ]

\* Optional values: None is << >>, a value x is << x >>
NoneOpt == << >>
Some(x) == << x >>

VARIABLES
    pc,                    \* where run_genetic_algorithm is
    population_size, min_generations, max_generations,
    initial_mutation_rate, crossover_mode, elitism_count,   \* the arguments
    heap,                  \* address -> Assignment dict
    population,            \* list of Schedule objects
    mutation_rate, history, prev_avg, generations,
    fitness_list,          \* of the generation being processed
    children,              \* children built so far in step 6
    result,                \* the returned dict
    evaluated,             \* ghost: the population by value, as last recorded
    variation_steps,       \* ghost: number of completed step-6 replacements
    drawn                  \* ghost, for a function called on its own (outside
                           \* a run): what the random module returned to it,
                           \* what it added to each score, what it returned

vars == << pc, population_size, min_generations, max_generations,
           initial_mutation_rate, crossover_mode, elitism_count,
           heap, population, mutation_rate, history, prev_avg, generations,
           fitness_list, children, result, evaluated, variation_steps, drawn >>

args == << population_size, min_generations, max_generations,
           initial_mutation_rate, crossover_mode, elitism_count >>

(***************************************************************************)
(* Schedule objects and the heap of Assignment dicts.                      *)
(***************************************************************************)
\* the smallest address not in use
NextFree(used) ==
    CHOOSE n \in 1..(Cardinality(used) + 1) :
        n \notin used /\ \A m \in 1..(n - 1) : m \in used

\* the assignments of a Schedule by value
Deref(h, schedule) ==
    [ a \in DOMAIN schedule.assignments |-> h[schedule.assignments[a]] ]

\* Schedule.__init__(assignments) with a dict: stores the dict it is given
Schedule(assignments) == [ assignments |-> assignments, fitness |-> NoneOpt ]

\* Schedule.__init__(None): a dict of empty slots for every activity
RECURSIVE EmptySlots(_, _, _)
EmptySlots(h, i, acc) ==
    IF i > Len(ACTIVITY_LIST) THEN [ heap |-> h, schedule |-> Schedule(acc) ]
    ELSE LET new == NextFree(DOMAIN h)
             slot == [ room |-> None, time |-> None, facilitator |-> None ]
         IN  EmptySlots(h @@ (new :> slot), i + 1,
                        acc @@ (ACTIVITY_LIST[i] :> new))

ScheduleEmpty(h) == EmptySlots(h, 1, << >>)

\* DictCopy without the copy: the child is given the parent's own dict
DictCopy_SameDict(h, src) == [ heap |-> h, addr |-> src ]

\* dict.copy() of the Assignment dict at src: a new dict with the same items
DictCopy(h, src) ==
    LET new == NextFree(DOMAIN h)
    IN  [ heap |-> h @@ (new :> h[src]), addr |-> new ]


(***************************************************************************)
(* src/ga/population.py                                                    *)
(***************************************************************************)
\* random_schedule that leaves the slot of the first activity empty
random_schedule_Unfilled(h, draw) ==
    LET e == ScheduleEmpty(h)
        filled == { a \in DOMAIN e.schedule.assignments :
                      a \in Range(Tail(ACTIVITY_LIST)) }
    IN  [ heap |-> [ x \in DOMAIN e.heap |->
                       IF \E a \in filled : e.schedule.assignments[a] = x
                       THEN draw[CHOOSE a \in filled : e.schedule.assignments[a] = x]
                       ELSE e.heap[x] ],
          schedule |-> e.schedule ]

\* random_schedule(): Schedule() and then, for every activity,
\* schedule.assignments[activity] = random_assignment().  draw[a] is the
\* dict random_assignment() returns for activity a.  The empty slot a new
\* dict replaces is unreachable from then on, so the new dict takes its address.
random_schedule(h, draw) ==
    LET e == ScheduleEmpty(h)
        filled == { a \in DOMAIN e.schedule.assignments : a \in Range(ACTIVITY_LIST) }
    IN  [ heap |-> [ x \in DOMAIN e.heap |->
                       IF \E a \in filled : e.schedule.assignments[a] = x
                       THEN draw[CHOOSE a \in filled : e.schedule.assignments[a] = x]
                       ELSE e.heap[x] ],
          schedule |-> e.schedule ]

\* initialize_population(size): draws[i] is the draw of the i-th random_schedule()
RECURSIVE initialize_population(_, _, _, _)
initialize_population(h, size, draws, acc) ==
    IF Len(acc) >= size THEN [ heap |-> h, population |-> acc ]
    ELSE LET r == random_schedule(h, draws[Len(acc) + 1])
         IN  initialize_population(r.heap, size, draws, Append(acc, r.schedule))

(***************************************************************************)
(* src/ga/crossover.py                                                     *)
(***************************************************************************)
\* the loop of both crossovers: child_assignments[activity] = <source>.copy(),
\* where from_a[i] says whether the i-th activity is taken from parent A
RECURSIVE CopyAssignments(_, _, _, _, _, _)
CopyAssignments(h, parent_a, parent_b, from_a, i, acc) ==
    IF i > Len(ACTIVITY_LIST) THEN [ heap |-> h, schedule |-> Schedule(acc) ]
    ELSE LET activity == ACTIVITY_LIST[i]
             src == IF from_a[i] THEN parent_a.assignments[activity]
                                 ELSE parent_b.assignments[activity]
             c == DictCopy(h, src)
         IN  CopyAssignments(c.heap, parent_a, parent_b, from_a, i + 1,
                             acc @@ (activity :> c.addr))

\* the cut as the docstring words it, "first k activities copied from parent A"
single_point_crossover_FirstK(h, parent_a, parent_b, k) ==
    CopyAssignments(h, parent_a, parent_b,
                    [ i \in DOMAIN ACTIVITY_LIST |-> (i - 1) < k ], 1, << >>)

\* k = random.randint(0, len(ACTIVITY_LIST) - 1); enumerate() counts from 0
single_point_crossover(h, parent_a, parent_b, k) ==
    CopyAssignments(h, parent_a, parent_b,
                    [ i \in DOMAIN ACTIVITY_LIST |-> (i - 1) <= k ], 1, << >>)

\* u[i] is the random.random() drawn for the i-th activity, swap_prob is 0.5:
\* which activities the test "random.random() < swap_prob" gives to parent A
UniformFromA(u) == [ i \in DOMAIN ACTIVITY_LIST |-> u[i] < 50 ]

uniform_crossover(h, parent_a, parent_b, from_a) ==
    CopyAssignments(h, parent_a, parent_b, from_a, 1, << >>)

(***************************************************************************)
(* src/ga/mutation.py                                                      *)
(***************************************************************************)
\* the test written as random.random() <= mutation_rate
MutateField_OrEqual(old, u, x, rate) == IF u <= rate THEN x ELSE old

\* if random.random() < mutation_rate: assignment[field] = random.choice(domain)
\* with u the random.random() and x the random.choice()
MutateField(old, u, x, rate) == IF u < rate THEN x ELSE old

\* the values one field can have after mutate, over all draws
MutatedValues(old, domain, rate) ==
    { MutateField(old, u, x, rate) : u \in RandomUnit, x \in domain }

\* mutate(schedule, mutation_rate) in place; m[i] is what the i-th activity's
\* dict holds afterwards
RECURSIVE MutateFrom(_, _, _, _)
MutateFrom(h, schedule, m, i) ==
    IF i > Len(ACTIVITY_LIST) THEN h
    ELSE MutateFrom([ h EXCEPT ![schedule.assignments[ACTIVITY_LIST[i]]] = m[i] ],
                    schedule, m, i + 1)

mutate(h, schedule, m) == MutateFrom(h, schedule, m, 1)

\* the outcomes m that the draws of mutate can produce on this schedule
FieldOutcomes(old, rate) ==
    [ room : MutatedValues(old.room, RoomChoices, rate),
      time : MutatedValues(old.time, TimeChoices, rate),
      facilitator : MutatedValues(old.facilitator, FacilitatorChoices, rate) ]

MutateOutcomes(h, schedule, rate) ==
    LET old(i) == h[schedule.assignments[ACTIVITY_LIST[i]]]
    IN  { m \in [ DOMAIN ACTIVITY_LIST ->
                    UNION { FieldOutcomes(old(i), rate) : i \in DOMAIN ACTIVITY_LIST } ] :
            \A i \in DOMAIN ACTIVITY_LIST : m[i] \in FieldOutcomes(old(i), rate) }

(***************************************************************************)
(* src/ga/selection.py                                                     *)
(***************************************************************************)
\* math.exp(x) is positive: x is f - max_f, a difference of two fitness
\* values, far above the underflow of exp (about -745)
ExpIsPositive(x) == x <= 0

\* softmax(fitness_list): p_i = exp(f_i - max_f) / total.  What the model
\* keeps of the distribution is its support, the indices random.choices can
\* return.
softmax(fitnesses) ==
    LET max_f == CHOOSE x \in Range(fitnesses) : \A y \in Range(fitnesses) : y <= x
    IN  { i \in DOMAIN fitnesses : ExpIsPositive(fitnesses[i] - max_f) }

(***************************************************************************)
(* src/ga/engine.py                                                        *)
(***************************************************************************)
Max(S) == CHOOSE x \in S : \A y \in S : y <= x
Min(S) == CHOOSE x \in S : \A y \in S : x <= y

RECURSIVE SeqSum(_)
SeqSum(s) == IF s = << >> THEN 0 ELSE Head(s) + SeqSum(Tail(s))

\* evaluate_population that scores the schedules without storing the score
evaluate_population_NoStore(h, pop) ==
    LET fl == [ i \in DOMAIN pop |-> compute_schedule_fitness(Deref(h, pop[i])) ]
    IN  [ population |-> pop,
          fitness_list |-> fl,
          best |-> Max(Range(fl)),
          avg |-> [ num |-> SeqSum(fl), den |-> Len(fl) ],
          worst |-> Min(Range(fl)) ]

\* evaluate_population: compute_schedule_fitness on every schedule (which
\* stores the score in schedule.fitness), then max, mean and min.  The mean is
\* kept as [num, den]: the sum and the length of the list.
evaluate_population(h, pop) ==
    LET fl == [ i \in DOMAIN pop |-> compute_schedule_fitness(Deref(h, pop[i])) ]
    IN  [ population |-> [ i \in DOMAIN pop |->
                             [ pop[i] EXCEPT !.fitness = Some(fl[i]) ] ],
          fitness_list |-> fl,
          best |-> Max(Range(fl)),
          avg |-> [ num |-> SeqSum(fl), den |-> Len(fl) ],
          worst |-> Min(Range(fl)) ]

\* improvement = ((avg_f - prev_avg) / abs(denom)) * 100.0 with
\* denom = prev_avg if abs(prev_avg) > 1e-9 else 1e-9.  Both means have the
\* same divisor, so the quotient is diff / denom of the sums when the previous
\* sum is not 0 (eps FALSE); else the divisor is 1e-9 (eps TRUE).
Improvement(avg_f, prev) ==
    IF prev.num # 0
    THEN [ diff |-> avg_f.num - prev.num, denom |-> Abs(prev.num), eps |-> FALSE ]
    ELSE [ diff |-> avg_f.num - prev.num, denom |-> 0, eps |-> TRUE ]

\* improvement < 1.0.  With eps, improvement is avg_f * 1e11, which is below 1
\* exactly when the sum (a whole number of hundredths) is not positive.
BelowOnePercent(imp) ==
    IF imp.eps THEN imp.diff <= 0 ELSE imp.diff * 100 < imp.denom

\* a loop that runs one iteration too many
InRange_Inclusive(gen, n) == gen <= n

\* for gen in range(n): whether the loop has an iteration for this gen
InRange(gen, n) == gen < n

\* the stop test without the minimum number of generations
Converged_NoMinimum(improvement, gen) ==
    /\ improvement # NoneOpt
    /\ BelowOnePercent(improvement[1])

\* the stop test one generation late: gen + 1 > min_generations
Converged_StrictMinimum(improvement, gen) ==
    /\ improvement # NoneOpt
    /\ gen + 1 > min_generations
    /\ BelowOnePercent(improvement[1])

\* step 5: the stop test
Converged(improvement, gen) ==
    /\ improvement # NoneOpt
    /\ gen + 1 >= min_generations
    /\ BelowOnePercent(improvement[1])

\* indexed.sort(key=lambda x: x[1], reverse=True): the indices of the
\* population by fitness descending; the sort is stable, equal fitness keeps
\* the population's order
RECURSIVE SortDesc(_, _)
SortDesc(fl, left) ==
    IF left = {} THEN << >>
    ELSE LET i == CHOOSE j \in left :
                     \A k \in left : \/ fl[k] < fl[j]
                                     \/ (fl[k] = fl[j] /\ j <= k)
         IN  << i >> \o SortDesc(fl, left \ {i})

\* s[:n] of Python
Prefix(s, n) ==
    IF n >= 0 THEN SubSeq(s, 1, Min({n, Len(s)}))
    ELSE SubSeq(s, 1, Max({Len(s) + n, 0}))

\* elites taken from the population as it stands, without the sort
Elites_Unsorted(pop, fl, count) == Prefix(pop, count)

\* step 6 (d): elites = [sch for sch, _ in indexed[:elitism_count]]
Elites(pop, fl, count) ==
    LET order == Prefix(SortDesc(fl, DOMAIN pop), count)
    IN  [ i \in DOMAIN order |-> pop[order[i]] ]

\* the new population without the repair of its size
NewPopulation_NoRepair(elites, kids, size) == elites \o kids

\* the new population joined as children + elites before it is truncated
NewPopulation_ChildrenFirst(elites, kids, size) ==
    LET joined == kids \o elites
    IN  IF Len(joined) > size THEN Prefix(joined, size)
        ELSE IF Len(joined) < size
             THEN joined \o Prefix(kids, size - Len(joined))
        ELSE joined

\* new_population = elites + children, truncated or padded to population_size
NewPopulation(elites, kids, size) ==
    LET joined == elites \o kids
    IN  IF Len(joined) > size THEN Prefix(joined, size)
        ELSE IF Len(joined) < size
             THEN joined \o Prefix(kids, size - Len(joined))
        ELSE joined

\* the addresses of a list of schedules in order: schedule by schedule,
\* activity by activity
Flat(scheds) ==
    LET n == Len(ACTIVITY_LIST)
    IN  [ p \in 1..(Len(scheds) * n) |->
            scheds[((p - 1) \div n) + 1].assignments[ACTIVITY_LIST[((p - 1) % n) + 1]] ]

FirstPos(flat, x) == CHOOSE p \in DOMAIN flat :
                         flat[p] = x /\ \A q \in 1..(p - 1) : flat[q] # x

\* the new address of x: its rank among the addresses of flat, by first use
NewAddr(flat, x) ==
    Cardinality({ y \in Range(flat) : FirstPos(flat, y) <= FirstPos(flat, x) })

Renumbered(scheds) ==
    [ i \in DOMAIN scheds |->
        [ scheds[i] EXCEPT !.assignments =
            [ a \in DOMAIN scheds[i].assignments |->
                NewAddr(Flat(scheds), scheds[i].assignments[a]) ] ] ]

RenumberedHeap(h, scheds) ==
    LET flat == Flat(scheds)
    IN  [ n \in 1..Cardinality(Range(flat)) |->
            h[CHOOSE x \in Range(flat) : NewAddr(flat, x) = n] ]

\* a record numbered from 1: "generation": gen + 1
GenerationRecord_OneBased(gen, ev, improvement, rate) ==
    [ generation |-> gen + 1,
      best |-> ev.best,
      avg |-> ev.avg,
      worst |-> ev.worst,
      improvement |-> improvement,
      mutation_rate |-> rate ]

\* step 4: the dict appended to history
GenerationRecord(gen, ev, improvement, rate) ==
    [ generation |-> gen,
      best |-> ev.best,
      avg |-> ev.avg,
      worst |-> ev.worst,
      improvement |-> improvement,
      mutation_rate |-> rate ]

(***************************************************************************)
(* run_genetic_algorithm, one action per step of the function.             *)
(***************************************************************************)
Init ==
    /\ pc = "start"
    /\ population_size \in 0..MaxPopulationSize
    /\ min_generations \in 1..MaxGenerations
    /\ max_generations \in 0..MaxGenerations
    /\ initial_mutation_rate \in MutationRates
    /\ crossover_mode \in CrossoverModes
    /\ elitism_count \in -1..(MaxPopulationSize + 1)
    /\ heap = << >>
    /\ population = << >>
    /\ mutation_rate = 0
    /\ history = << >>
    /\ prev_avg = NoneOpt
    /\ generations = 0
    /\ fitness_list = << >>
    /\ children = << >>
    /\ result = NoneOpt
    /\ evaluated = << >>
    /\ variation_steps = 0
    /\ drawn = << >>

\* step 1, lines 66-72
Initialize ==
    /\ pc = "start"
    /\ \E draws \in [ 1..population_size -> [ ActivityKeys -> AssignmentValues ] ] :
          LET r == initialize_population(heap, population_size, draws, << >>)
          IN  /\ heap' = r.heap
              /\ population' = r.population
    /\ mutation_rate' = initial_mutation_rate
    /\ history' = << >>
    /\ prev_avg' = NoneOpt
    /\ generations' = 0
    /\ pc' = "loop"
    /\ UNCHANGED << drawn, args, fitness_list, children, result, evaluated, variation_steps >>

\* steps 2-5 of one iteration of "for gen in range(max_generations)",
\* lines 74-116; max() of an empty fitness list raises ValueError
Evaluate ==
    /\ pc = "loop"
    /\ InRange(generations, max_generations)
    /\ LET gen == generations
       IN  /\ generations' = gen + 1
           /\ IF population = << >>
              THEN /\ pc' = "raised"
                   /\ UNCHANGED << population, fitness_list, prev_avg, history,
                                   evaluated, children >>
              ELSE LET ev == evaluate_population(heap, population)
                       improvement ==
                           IF prev_avg = NoneOpt THEN NoneOpt
                           ELSE Some(Improvement(ev.avg, prev_avg[1]))
                   IN  /\ population' = ev.population
                       /\ fitness_list' = ev.fitness_list
                       /\ prev_avg' = Some(ev.avg)
                       /\ history' = Append(history,
                              GenerationRecord(gen, ev, improvement, mutation_rate))
                       /\ evaluated' = [ i \in DOMAIN population |->
                              [ assignments |-> Deref(heap, population[i]),
                                fitness |-> ev.fitness_list[i] ] ]
                       /\ children' = << >>
                       /\ pc' = IF Converged(improvement, gen) THEN "final"
                                ELSE "breed"
    /\ UNCHANGED << drawn, args, heap, mutation_rate, result, variation_steps >>

\* the for loop is exhausted
LoopExit ==
    /\ pc = "loop"
    /\ ~InRange(generations, max_generations)
    /\ pc' = "final"
    /\ UNCHANGED << drawn, args, heap, population, mutation_rate, history, prev_avg,
                    generations, fitness_list, children, result, evaluated,
                    variation_steps >>

\* step 6 (a)-(c) for one parent pair, lines 122-141: the pair is drawn from
\* the softmax distribution of this generation (the draws of select_parents
\* depend on nothing the loop changes), crossed over, the child mutated in
\* place and appended
Breed ==
    /\ pc = "breed"
    /\ Len(children) < population_size
    /\ \E ia \in softmax(fitness_list), ib \in softmax(fitness_list) :
        \E c \in IF crossover_mode = "uniform"
                 THEN { uniform_crossover(heap, population[ia], population[ib], f) :
                          f \in { UniformFromA(u) :
                                    u \in [ DOMAIN ACTIVITY_LIST -> RandomUnit ] } }
                 ELSE { single_point_crossover(heap, population[ia], population[ib], k) :
                          k \in 0..(Len(ACTIVITY_LIST) - 1) } :
          \E m \in MutateOutcomes(c.heap, c.schedule, mutation_rate) :
              /\ heap' = mutate(c.heap, c.schedule, m)
              /\ children' = Append(children, c.schedule)
    /\ UNCHANGED << drawn, args, pc, population, mutation_rate, history, prev_avg,
                    generations, fitness_list, result, evaluated, variation_steps >>

\* step 6 (d), lines 143-161: elitism and the new population.  The dicts of
\* the schedules dropped here are unreachable and leave the heap; addresses
\* being identities only, the dicts that stay are renumbered in the order of
\* the new population, which keeps every sharing between schedules.
Replace ==
    /\ pc = "breed"
    /\ Len(children) = population_size
    /\ LET elites == Elites(population, fitness_list, elitism_count)
           new_population == NewPopulation(elites, children, population_size)
       IN  /\ population' = Renumbered(new_population)
           /\ heap' = RenumberedHeap(heap, new_population)
    /\ children' = << >>
    /\ variation_steps' = variation_steps + 1
    /\ pc' = "loop"
    /\ UNCHANGED << drawn, args, mutation_rate, history, prev_avg, generations,
                    fitness_list, result, evaluated >>

\* lines 189-200: the final evaluation and the result
Finish ==
    /\ pc = "final"
    /\ IF population = << >>
       THEN /\ pc' = "raised"
            /\ UNCHANGED << population, result >>
       ELSE LET ev == evaluate_population(heap, population)
                best_index == CHOOSE i \in DOMAIN population :
                    /\ \A j \in DOMAIN population :
                           ev.fitness_list[j] <= ev.fitness_list[i]
                    /\ \A j \in 1..(i - 1) :
                           ev.fitness_list[j] < ev.fitness_list[i]
            IN  /\ population' = ev.population
                /\ result' = Some([ best_schedule |-> ev.population[best_index],
                                    history |-> history,
                                    final_mutation_rate |-> mutation_rate,
                                    generations_run |-> generations ])
                /\ pc' = "done"
    /\ UNCHANGED << drawn, args, heap, mutation_rate, history, prev_avg, generations,
                    fitness_list, children, evaluated, variation_steps >>

Next ==
    \/ Initialize
    \/ Evaluate
    \/ LoopExit
    \/ Breed
    \/ Replace
    \/ Finish

Spec == Init /\ [][Next]_vars


(***************************************************************************)
(* Properties of run_genetic_algorithm.                                    *)
(***************************************************************************)
\* the population by value
Values(h, scheds) == [ i \in DOMAIN scheds |-> Deref(h, scheds[i]) ]

\* the stop condition at the 1-indexed generation g, read from the history
StopsAt(g) ==
    /\ history[g].improvement # NoneOpt
    /\ g >= min_generations
    /\ BelowOnePercent(history[g].improvement[1])

LoopIsOver == pc \in { "final", "done" }

\* C1: the run stops at the first generation g that has a previous average,
\* g >= min_generations and improvement < 1 percent: generations_run is g, and
\* no generation after g is evaluated, recorded or bred; the test is not
\* applied at the first generation nor below min_generations; with no such g
\* up to max_generations, generations_run is max_generations.
C1_StopRule ==
    /\ \A g \in 1..(Len(history) - 1) : ~StopsAt(g)
    /\ (pc = "breed" => ~StopsAt(Len(history)))
    /\ (LoopIsOver =>
          IF \E g \in DOMAIN history : StopsAt(g)
          THEN /\ generations = Len(history)
               /\ StopsAt(generations)
               /\ generations >= 2
               /\ generations >= min_generations
               /\ variation_steps = generations - 1
               /\ Values(heap, population) =
                      [ i \in DOMAIN evaluated |-> evaluated[i].assignments ]
          ELSE generations = max_generations)
    /\ (pc = "done" => result[1].generations_run = generations)

\* a run that converged before the ceiling, at the first eligible generation
C1_Witness ==
    /\ pc = "done"
    /\ result[1].generations_run = 2
    /\ max_generations = 3
    /\ population_size = 2
    /\ StopsAt(2)

\* C2: the variation step runs only after a generation at which the run does
\* not end: when the run returns after at least one generation, the final
\* population is the population recorded in the last GenerationRecord and the
\* number of variation steps is generations_run - 1.
C2_NoVariationAfterLastGeneration ==
    (pc = "done" /\ result[1].generations_run >= 1) =>
        /\ variation_steps = result[1].generations_run - 1
        /\ Values(heap, population) =
               [ i \in DOMAIN evaluated |-> evaluated[i].assignments ]

\* whether f is one-to-one
Injective(f) == \A x \in DOMAIN f : \A y \in DOMAIN f : f[x] = f[y] => x = y

\* C3: for 0 <= elitism_count <= population_size, right after generation g is
\* replaced by generation g+1, the elitism_count schedules of generation g
\* with the highest fitness are members of generation g+1, with the
\* assignments and the fitness they had when generation g was evaluated.
C3_ElitesCarriedUnchanged ==
    ( /\ pc = "loop"
      /\ variation_steps >= 1
      /\ 0 <= elitism_count
      /\ elitism_count <= population_size ) =>
        \E old \in [ 1..elitism_count -> DOMAIN evaluated ] :
          \E new \in [ 1..elitism_count -> DOMAIN population ] :
            /\ Injective(old)
            /\ Injective(new)
            /\ \A e \in 1..elitism_count :
                 /\ \A k \in DOMAIN evaluated \ Range(old) :
                        evaluated[k].fitness <= evaluated[old[e]].fitness
                 /\ Deref(heap, population[new[e]]) = evaluated[old[e]].assignments
                 /\ population[new[e]].fitness = Some(evaluated[old[e]].fitness)

\* one elite, better than the schedule it leaves behind, next to a child that
\* differs from it
C3_Witness ==
    /\ pc = "loop"
    /\ variation_steps >= 1
    /\ elitism_count = 1
    /\ population_size = 2
    /\ evaluated[1].fitness < evaluated[2].fitness
    /\ Deref(heap, population[1]) = evaluated[2].assignments
    /\ Deref(heap, population[2]) # evaluated[2].assignments
    /\ population[2].fitness = NoneOpt

\* no Assignment dict belongs to two of these schedules, or twice to one
NoSharedAssignment(scheds) ==
    Cardinality(Range(Flat(scheds))) = Len(scheds) * Len(ACTIVITY_LIST)

\* C4: schedules that coexist (the population and the children bred from it)
\* share no Assignment dict, and the step that builds and mutates a child
\* changes no field of any other schedule.
C4_NoAliasing ==
    [][ /\ NoSharedAssignment(population' \o children')
        /\ (pc = "breed" /\ Len(children') = Len(children) + 1) =>
              /\ Values(heap', population) = Values(heap, population)
              /\ Values(heap', children) = Values(heap, children) ]_vars

\* a child that mutation made different, in one activity, from every member
\* of the population it was bred from
C4_Witness ==
    /\ pc = "breed"
    /\ Len(children) = 2
    /\ \E a \in ActivityKeys : \A i \in DOMAIN population :
           Deref(heap, children[1])[a] # Deref(heap, population[i])[a]

\* C5: at every generation boundary the population holds exactly
\* population_size schedules, whatever elitism_count is.
C5_PopulationSizeKept ==
    pc \in { "loop", "breed", "final", "done" } => Len(population) = population_size

\* a generation built with more elites asked for than the population holds
C5_Witness ==
    /\ pc = "loop"
    /\ variation_steps >= 1
    /\ population_size = 2
    /\ elitism_count = 3

\* C6: at every generation boundary every schedule of the population maps
\* exactly the activity set, and each room, time and facilitator is a value of
\* the catalogue (never None).
C6_AssignmentsComplete ==
    pc \in { "loop", "breed", "final", "done" } =>
        \A i \in DOMAIN population :
            /\ DOMAIN population[i].assignments = ActivityKeys
            /\ \A a \in ActivityKeys :
                 LET d == heap[population[i].assignments[a]]
                 IN  /\ d.room \in DOMAIN ROOMS
                     /\ d.time \in Range(TIME_SLOTS)
                     /\ d.facilitator \in Range(FACILITATORS)

\* a second generation made of one elite and one mutated child
C6_Witness ==
    /\ pc = "loop"
    /\ variation_steps >= 1
    /\ population_size = 2
    /\ elitism_count = 1
    /\ mutation_rate = 1
    /\ Deref(heap, population[2]) \notin Range(
           [ i \in DOMAIN evaluated |-> evaluated[i].assignments ])
    /\ Deref(heap, population[2])[ACTIVITY_LIST[1]].room
           # Deref(heap, population[2])[ACTIVITY_LIST[2]].room

\* C7: a run started with elitism_count > population_size or with
\* min_generations > max_generations is rejected before any generation is
\* evaluated: it records no generation and does not return a result.
C7_InvalidArgumentsRejected ==
    (elitism_count > population_size \/ min_generations > max_generations) =>
        /\ history = << >>
        /\ pc # "done"


(***************************************************************************)
(* A caller that builds a Schedule from a dict of its own and has it       *)
(* scored: Schedule.__init__ and compute_schedule_fitness on assignments   *)
(* that need not come from the catalogue.                                  *)
(***************************************************************************)
\* the dicts the caller passes: over the catalogue's activities or with an
\* activity the catalogue does not have, rooms and facilitators in or out of
\* the catalogue
CallerAssignments ==
    UNION { [ keys -> [ room : RoomChoices \cup { "Atlantis 101" },
                        time : TimeChoices,
                        facilitator : FacilitatorChoices \cup { "Nobody" } ] ] :
            keys \in { ActivityKeys, { ACTIVITY_LIST[1], "SLA999" } } }

\* every activity, room and facilitator the assignments name is in the catalogue
InCatalogue(assignments) ==
    \A a \in DOMAIN assignments :
        /\ a \in DOMAIN ACTIVITIES
        /\ assignments[a].room \in DOMAIN ROOMS
        /\ assignments[a].time \in Range(TIME_SLOTS)
        /\ assignments[a].facilitator \in Range(FACILITATORS)

\* the caller's dict laid out in the heap, one inner dict per activity
RECURSIVE StoreDicts(_, _, _, _)
StoreDicts(h, assignments, left, acc) ==
    IF left = {} THEN [ heap |-> h, assignments |-> acc ]
    ELSE LET a == CHOOSE x \in left : TRUE
             new == NextFree(DOMAIN h)
         IN  StoreDicts(h @@ (new :> assignments[a]), assignments,
                        left \ {a}, acc @@ (a :> new))

InitSchedule ==
    /\ pc = "caller"
    /\ population_size = 0
    /\ min_generations = 1
    /\ max_generations = 0
    /\ initial_mutation_rate = 0
    /\ crossover_mode = "single_point"
    /\ elitism_count = 0
    /\ heap = << >>
    /\ population = << >>
    /\ mutation_rate = 0
    /\ history = << >>
    /\ prev_avg = NoneOpt
    /\ generations = 0
    /\ fitness_list = << >>
    /\ children = << >>
    /\ result = NoneOpt
    /\ evaluated = << >>
    /\ variation_steps = 0
    /\ drawn = << >>

\* Schedule(assignments): the dict is stored as it is given, nothing is checked
Construct ==
    /\ pc = "caller"
    /\ \E given \in CallerAssignments :
          LET st == StoreDicts(heap, given, DOMAIN given, << >>)
          IN  /\ heap' = st.heap
              /\ population' = << Schedule(st.assignments) >>
    /\ pc' = "constructed"
    /\ UNCHANGED << drawn, args, mutation_rate, history, prev_avg, generations,
                    fitness_list, children, result, evaluated, variation_steps >>

\* compute_schedule_fitness(schedule): the score is stored on the schedule
Score ==
    /\ pc = "constructed"
    /\ population' = << [ population[1] EXCEPT !.fitness =
              Some(compute_schedule_fitness(Deref(heap, population[1]))) ] >>
    /\ pc' = "scored"
    /\ UNCHANGED << drawn, args, heap, mutation_rate, history, prev_avg, generations,
                    fitness_list, children, result, evaluated, variation_steps >>

NextSchedule ==
    \/ Construct
    \/ Score

SpecSchedule == InitSchedule /\ [][NextSchedule]_vars

\* C8: a Schedule whose assignments name an activity, a room or a facilitator
\* that is not in the catalogue is rejected when it is constructed or
\* validated: it never comes out of compute_schedule_fitness with a score.
C8_UnknownReferenceRejected ==
    pc = "scored" => InCatalogue(Deref(heap, population[1]))

\* C9: when the run returns, every schedule of the final population has a
\* cached fitness equal to the score of its current assignments, and
\* best_schedule is a member of the final population whose fitness is at least
\* that of every member.
C9_FinalFitnessFresh ==
    pc = "done" =>
        /\ \A i \in DOMAIN population :
               population[i].fitness =
                   Some(compute_schedule_fitness(Deref(heap, population[i])))
        /\ \E b \in DOMAIN population : result[1].best_schedule = population[b]
        /\ \A i \in DOMAIN population :
               population[i].fitness[1] <= result[1].best_schedule.fitness[1]

\* a run ended by the ceiling: its final population was built by the last
\* variation step and is scored by the final evaluation alone; the best is
\* a child, better than the elite next to it
C9_Witness ==
    /\ pc = "done"
    /\ variation_steps = generations
    /\ population_size = 2
    /\ elitism_count = 1
    /\ result[1].best_schedule = population[2]
    /\ population[1].fitness[1] < population[2].fitness[1]

\* an upper bound of the number of steps the run still takes: one iteration
\* of the loop is the evaluation, population_size children and the replacement
StepsLeft ==
    LET per_generation == population_size + 2
        later == (max_generations - generations) * per_generation
    IN  CASE pc = "start" -> later + 3
          [] pc = "loop"  -> later + 2
          [] pc = "breed" -> later + (population_size - Len(children)) + 3
          [] pc = "final" -> 1
          [] OTHER        -> 0

\* C10: every run ends, after at most max_generations evaluated generations,
\* whatever the improvements are: each step of the run lowers StepsLeft, which
\* is never negative and is 0 only when the run has returned or raised, and
\* generations_run <= max_generations.
C10_Terminates ==
    [][ /\ StepsLeft' < StepsLeft
        /\ StepsLeft' >= 0
        /\ (StepsLeft' = 0 <=> pc' \in { "done", "raised" })
        /\ generations' <= max_generations
        /\ Len(history') <= max_generations
        /\ (pc' = "done" => result'[1].generations_run <= max_generations) ]_vars

\* a run that never converged and was ended by the ceiling
C10_Witness ==
    /\ pc = "done"
    /\ max_generations = MaxGenerations
    /\ result[1].generations_run = max_generations
    /\ min_generations = 1
    /\ \A g \in DOMAIN history : ~StopsAt(g)

(***************************************************************************)
(* The run on a catalogue with one room, one time slot and one             *)
(* facilitator: every random.choice returns the only value there is, so    *)
(* every Assignment dict that random_assignment or mutate writes is        *)
(* ForcedAssignment.                                                       *)
(***************************************************************************)
ForcedAssignment ==
    [ room |-> "Roman 201", time |-> "10 AM", facilitator |-> "Lock" ]

ForcedIdentical == \A x \in DOMAIN heap : heap[x] = ForcedAssignment

NextForced ==
    \/ Initialize /\ ForcedIdentical'
    \/ Evaluate /\ ForcedIdentical'
    \/ LoopExit /\ ForcedIdentical'
    \/ Breed /\ ForcedIdentical'
    \/ Replace /\ ForcedIdentical'
    \/ Finish /\ ForcedIdentical'

SpecForced == Init /\ [][NextForced]_vars

\* every schedule of every recorded generation has the same fitness, and the
\* improvement of every generation after the first is exactly 0
ForcedFitnessFlat ==
    /\ \A i \in DOMAIN fitness_list : fitness_list[i] = fitness_list[1]
    /\ \A g \in DOMAIN history :
         /\ history[g].best = history[g].worst
         /\ history[g].best = history[1].best
         /\ history[g].avg.num = history[g].best * history[g].avg.den
         /\ (g = 1 => history[g].improvement = NoneOpt)
         /\ (g > 1 => /\ history[g].improvement # NoneOpt
                      /\ history[g].improvement[1].diff = 0)

\* C11 as stated: on the forced catalogue the fitness is flat, every
\* improvement after generation 0 is 0 and generations_run == min_generations
\* whatever max_generations (not below min_generations) is.
C11_StopsAtMinGenerations ==
    /\ ForcedFitnessFlat
    /\ (pc = "done" /\ min_generations <= max_generations =>
          result[1].generations_run = min_generations)

\* C11, amended: on the forced catalogue the fitness is flat, every
\* improvement after generation 0 is 0, and the run ends at the first
\* generation that has an improvement and is not below min_generations:
\* generations_run is max(min_generations, 2), or max_generations when that
\* is smaller.
C11_StopsWhenEligible ==
    /\ ForcedFitnessFlat
    /\ (pc = "done" =>
          result[1].generations_run =
              Min({ max_generations, Max({ min_generations, 2 }) }))

\* a run of two schedules that stopped at min_generations below the ceiling,
\* with mutation switched on
C11_Witness ==
    /\ pc = "done"
    /\ ForcedIdentical
    /\ population_size = 2
    /\ min_generations = 2
    /\ max_generations = 3
    /\ mutation_rate = 1
    /\ result[1].generations_run = 2
    /\ Len(result[1].history) = 2
    /\ result[1].history[2].improvement[1].diff = 0

\* C12: the history holds one GenerationRecord per evaluated generation, with
\* generation indices 0, 1, ... in order; improvement is None in the record of
\* generation 0 and in no other; every record's mutation_rate and the
\* returned final_mutation_rate are initial_mutation_rate; the returned
\* history is that history and its length is generations_run.
C12_HistoryComplete ==
    /\ (pc \in { "loop", "breed", "final", "done" } => Len(history) = generations)
    /\ \A g \in DOMAIN history :
         /\ history[g].generation = g - 1
         /\ (history[g].improvement = NoneOpt <=> g = 1)
         /\ history[g].mutation_rate = initial_mutation_rate
    /\ (pc = "done" =>
          /\ result[1].history = history
          /\ Len(result[1].history) = result[1].generations_run
          /\ result[1].final_mutation_rate = initial_mutation_rate)

\* a returned run of three generations with mutation switched on
C12_Witness ==
    /\ pc = "done"
    /\ initial_mutation_rate = 1
    /\ result[1].generations_run = 3
    /\ Len(result[1].history) = 3
    /\ result[1].history[3].generation = 2
    /\ result[1].history[3].improvement # NoneOpt
    /\ result[1].final_mutation_rate = 1

(***************************************************************************)
(* The variation operators called on their own, on schedules whose rooms   *)
(* and time slots are drawn from OperatorValues.                           *)
(***************************************************************************)
OperatorValues ==
    [ room : RoomChoices, time : { "10 AM", "11 AM" },
      facilitator : FacilitatorChoices ]

\* the state left by a run's variables, which these calls do not use
NoRun ==
    /\ population_size = 0
    /\ min_generations = 1
    /\ max_generations = 0
    /\ crossover_mode = "single_point"
    /\ elitism_count = 0
    /\ history = << >>
    /\ prev_avg = NoneOpt
    /\ generations = 0
    /\ fitness_list = << >>
    /\ result = NoneOpt
    /\ evaluated = << >>
    /\ variation_steps = 0

\* two schedules, as random_schedule() builds them
InitCrossover ==
    /\ pc = "parents"
    /\ NoRun
    /\ initial_mutation_rate = 0
    /\ mutation_rate = 0
    /\ \E draws \in [ 1..2 -> [ ActivityKeys -> OperatorValues ] ] :
          LET r == initialize_population(<< >>, 2, draws, << >>)
          IN  /\ heap = r.heap
              /\ population = r.population
    /\ children = << >>
    /\ drawn = << >>

\* child = single_point_crossover(parent_a, parent_b): the parents are any two
\* of the schedules (the same one twice included), k is the randint drawn
Crossover ==
    /\ pc = "parents"
    /\ \E ia \in DOMAIN population, ib \in DOMAIN population,
          k \in 0..(Len(ACTIVITY_LIST) - 1) :
          LET c == single_point_crossover(heap, population[ia], population[ib], k)
          IN  /\ heap' = c.heap
              /\ children' = << c.schedule >>
              /\ drawn' = [ parent_a |-> ia, parent_b |-> ib, k |-> k ]
    /\ pc' = "crossed"
    /\ UNCHANGED << args, population, mutation_rate, history, prev_avg,
                    generations, fitness_list, result, evaluated, variation_steps >>

NextCrossover == Crossover

SpecCrossover == InitCrossover /\ [][NextCrossover]_vars

OperatorRates == { 0, 1, 100 }

\* one schedule, as random_schedule() builds it
InitMutate ==
    /\ pc = "unmutated"
    /\ NoRun
    /\ initial_mutation_rate = 0
    /\ mutation_rate = 0
    /\ \E draws \in [ 1..1 -> [ ActivityKeys -> OperatorValues ] ] :
          LET r == initialize_population(<< >>, 1, draws, << >>)
          IN  /\ heap = r.heap
              /\ population = r.population
    /\ children = << >>
    /\ drawn = << >>

\* what one activity's dict can hold after mutate, given the random.choice
\* x of each field, over the random.random() of each field
MutatedWith(old, x, rate) ==
    [ room : { MutateField(old.room, u, x.room, rate) : u \in RandomUnit },
      time : { MutateField(old.time, u, x.time, rate) : u \in RandomUnit },
      facilitator : { MutateField(old.facilitator, u, x.facilitator, rate) :
                        u \in RandomUnit } ]

\* mutate(schedule, rate): choice[i] holds what random.choice returns (or
\* would return) for the three fields of the i-th activity
Mutate ==
    /\ pc = "unmutated"
    /\ \E rate \in OperatorRates,
          choice \in [ DOMAIN ACTIVITY_LIST -> OperatorValues ] :
          LET old(i) == heap[population[1].assignments[ACTIVITY_LIST[i]]]
          IN  \E m \in { f \in [ DOMAIN ACTIVITY_LIST ->
                                   UNION { MutatedWith(old(i), choice[i], rate) :
                                             i \in DOMAIN ACTIVITY_LIST } ] :
                           \A i \in DOMAIN ACTIVITY_LIST :
                               f[i] \in MutatedWith(old(i), choice[i], rate) } :
                /\ heap' = mutate(heap, population[1], m)
                /\ drawn' = [ rate |-> rate, choice |-> choice,
                              before |-> Deref(heap, population[1]) ]
                /\ mutation_rate' = rate
    /\ pc' = "mutated"
    /\ UNCHANGED << args, population, history, prev_avg, generations,
                    fitness_list, children, result, evaluated, variation_steps >>

NextMutate == Mutate

SpecMutate == InitMutate /\ [][NextMutate]_vars

\* C14: mutate with mutation_rate 0.0 leaves every field of every activity of
\* the schedule unchanged; mutate with mutation_rate 1.0 sets every one of the
\* three fields of every activity to the value random.choice drew for it from
\* that field's catalogue domain.
C14_MutationRateExtremes ==
    pc = "mutated" =>
        LET after == Deref(heap, population[1])
        IN  /\ DOMAIN after = ActivityKeys
            /\ (drawn.rate = 0 => after = drawn.before)
            /\ (drawn.rate = 100 =>
                  \A i \in DOMAIN ACTIVITY_LIST :
                      /\ after[ACTIVITY_LIST[i]] = drawn.choice[i]
                      /\ after[ACTIVITY_LIST[i]].room \in DOMAIN ROOMS
                      /\ after[ACTIVITY_LIST[i]].time \in Range(TIME_SLOTS)
                      /\ after[ACTIVITY_LIST[i]].facilitator \in Range(FACILITATORS))

\* a mutation at rate 1.0 that changed the room and the time of every activity
C14_Witness ==
    /\ pc = "mutated"
    /\ drawn.rate = 100
    /\ \A a \in ActivityKeys :
         /\ Deref(heap, population[1])[a].room # drawn.before[a].room
         /\ Deref(heap, population[1])[a].time # drawn.before[a].time

(***************************************************************************)
(* compute_violations, src/ga/fitness.py.  Its argument is the assignments *)
(* dict by value.  It indexes ACTIVITIES[act] and compares ROOMS.get(room) *)
(* with a number, so it raises on an activity or a room that the catalogue *)
(* does not have.                                                          *)
(***************************************************************************)
ViolationsRaise(assignments) ==
    \/ \E a \in DOMAIN assignments :
          \/ a \notin DOMAIN ACTIVITIES
          \/ assignments[a].room \notin DOMAIN ROOMS
    \/ \E a \in Range(PAIR_SLA101) \cup Range(PAIR_SLA191) : a \notin DOMAIN assignments

\* the underload test without the exception for Tyler
Underloaded_NoTylerException(fac, total) == total < 3

\* if total < 3: Tyler counts only with total >= 2, anyone else always
Underloaded(fac, total) ==
    /\ total < 3
    /\ (fac = "Tyler" => total >= 2)

compute_violations(assignments) ==
    LET acts == DOMAIN assignments
        room_time == { << assignments[a].room, assignments[a].time >> : a \in acts }
        fac_time == { << assignments[a].facilitator, assignments[a].time >> : a \in acts }
        facs == { assignments[a].facilitator : a \in acts }
        rt_count == [ g \in room_time |->
            Cardinality({ a \in acts :
                << assignments[a].room, assignments[a].time >> = g }) ]
        ft_count == [ g \in fac_time |->
            Cardinality({ a \in acts :
                << assignments[a].facilitator, assignments[a].time >> = g }) ]
        fac_total == [ f \in facs |->
            Cardinality({ a \in acts : assignments[a].facilitator = f }) ]
        expected(a) == ACTIVITIES[a].expected
        capacity(a) == ROOMS[assignments[a].room]
        \* the loop over CROSS_101_191, one set of indices per counter
        same == { i \in DOMAIN CROSS_101_191 :
                    assignments[CROSS_101_191[i][1]].time
                        = assignments[CROSS_101_191[i][2]].time }
        diff(i) == _time_diff_hours(assignments[CROSS_101_191[i][1]].time,
                                    assignments[CROSS_101_191[i][2]].time)
        consecutive == { i \in DOMAIN CROSS_101_191 \ same : diff(i) = 1 }
    IN  [ room_conflicts |->
            SumOver({ g \in room_time : rt_count[g] > 1 },
                    [ g \in room_time |-> rt_count[g] - 1 ]),
          room_too_small |->
            Cardinality({ a \in acts : capacity(a) < expected(a) }),
          room_too_big_30 |->
            Cardinality({ a \in acts : /\ ~(capacity(a) < expected(a))
                                       /\ capacity(a) > 3 * expected(a) }),
          room_too_big_15 |->
            Cardinality({ a \in acts : /\ ~(capacity(a) < expected(a))
                                       /\ ~(capacity(a) > 3 * expected(a))
                                       /\ 2 * capacity(a) > 3 * expected(a) }),
          facilitator_overload |->
            Cardinality({ f \in facs : fac_total[f] > 4 }),
          facilitator_underload |->
            Cardinality({ f \in facs : Underloaded(f, fac_total[f]) }),
          facilitator_same_time_conflict |->
            SumOver({ g \in fac_time : ft_count[g] > 1 },
                    [ g \in fac_time |-> ft_count[g] - 1 ]),
          sla101_same_slot |->
            IF assignments[PAIR_SLA101[1]].time = assignments[PAIR_SLA101[2]].time
            THEN 1 ELSE 0,
          sla191_same_slot |->
            IF assignments[PAIR_SLA191[1]].time = assignments[PAIR_SLA191[2]].time
            THEN 1 ELSE 0,
          sla101_191_same_slot |-> Cardinality(same),
          sla101_191_consecutive_ok |-> Cardinality(consecutive),
          sla101_191_distance_issue |->
            Cardinality({ i \in consecutive :
                _is_beach_or_roman(assignments[CROSS_101_191[i][1]].room)
                    # _is_beach_or_roman(assignments[CROSS_101_191[i][2]].room) }),
          sla101_191_one_hour_gap |->
            Cardinality({ i \in DOMAIN CROSS_101_191 \ same : diff(i) = 2 }) ]

(***************************************************************************)
(* compute_schedule_fitness and compute_violations called on complete      *)
(* schedules over the whole catalogue.  A schedule is built from a record  *)
(* of choices: the time slots of the four SLA101/SLA191 sections, the      *)
(* rooms of SLA101A and SLA191A, how many of the other seven activities    *)
(* Tyler teaches (Zeldin teaches the rest), whether Lock teaches all four  *)
(* sections, and which of SLA303, SLA304, SLA449 is in an ill-fitting room.*)
(***************************************************************************)
ScheduleChoices ==
    [ t101A : { "10 AM", "11 AM" },
      t101B : { "10 AM", "3 PM" },
      t191A : { "10 AM", "11 AM", "12 PM", "2 PM" },
      t191B : { "10 AM", "3 PM" },
      r101A : { "Roman 201", "Loft 310" },
      r191A : { "Roman 201", "Loft 206" },
      tyler : 0..7,
      lock_all : BOOLEAN,
      misfit : { "none", "SLA303", "SLA304", "SLA449" } ]

ChosenSchedule(c) ==
    LET others == SubSeq(ACTIVITY_ORDER, 5, Len(ACTIVITY_ORDER))
        fac_other(a) ==
            IF (CHOOSE i \in DOMAIN others : others[i] = a) <= c.tyler
            THEN "Tyler" ELSE "Zeldin"
    IN  [ a \in Range(ACTIVITY_ORDER) |->
            CASE a = "SLA101A" ->
                   [ room |-> c.r101A, time |-> c.t101A, facilitator |-> "Lock" ]
              [] a = "SLA101B" ->
                   [ room |-> "Roman 201", time |-> c.t101B,
                     facilitator |-> IF c.lock_all THEN "Lock" ELSE "Glen" ]
              [] a = "SLA191A" ->
                   [ room |-> c.r191A, time |-> c.t191A, facilitator |-> "Lock" ]
              [] a = "SLA191B" ->
                   [ room |-> "Loft 310", time |-> c.t191B,
                     facilitator |-> IF c.lock_all THEN "Lock" ELSE "Banks" ]
              [] a = "SLA201" ->
                   [ room |-> "Roman 216", time |-> "1 PM", facilitator |-> fac_other(a) ]
              [] a = "SLA291" ->
                   [ room |-> "Loft 206", time |-> "2 PM", facilitator |-> fac_other(a) ]
              [] a = "SLA303" ->
                   [ room |-> IF c.misfit = a THEN "James 325" ELSE "Slater 003",
                     time |-> "1 PM", facilitator |-> fac_other(a) ]
              [] a = "SLA304" ->
                   [ room |-> IF c.misfit = a THEN "Loft 310" ELSE "Beach 301",
                     time |-> "2 PM", facilitator |-> fac_other(a) ]
              [] a = "SLA394" ->
                   [ room |-> "Beach 201", time |-> "11 AM", facilitator |-> fac_other(a) ]
              [] a = "SLA449" ->
                   [ room |-> IF c.misfit = a THEN "Beach 301" ELSE "Slater 003",
                     time |-> "12 PM", facilitator |-> fac_other(a) ]
              [] a = "SLA451" ->
                   [ room |-> "Frank 119", time |-> "3 PM", facilitator |-> fac_other(a) ] ]

\* a second schedule, which the calls are not made on
OtherChoice ==
    [ t101A |-> "11 AM", t101B |-> "10 AM", t191A |-> "12 PM", t191B |-> "3 PM",
      r101A |-> "Loft 310", r191A |-> "Loft 206", tyler |-> 3,
      lock_all |-> TRUE, misfit |-> "none" ]

\* compute_schedule_fitness with data.pop(...) where the code has data.get(...)
ScoreCall_Pop(h, schedule) ==
    LET total == compute_schedule_fitness(Deref(h, schedule))
    IN  [ heap |-> [ x \in DOMAIN h |->
                       IF \E a \in DOMAIN schedule.assignments :
                              schedule.assignments[a] = x
                       THEN [ room |-> None, time |-> None, facilitator |-> None ]
                       ELSE h[x] ],
          schedule |-> [ schedule EXCEPT !.fitness = Some(total) ],
          returned |-> total ]

\* compute_schedule_fitness(schedule) as a call: it reads the assignments,
\* stores the total in schedule.fitness and returns it
ScoreCall(h, schedule) ==
    LET total == compute_schedule_fitness(Deref(h, schedule))
    IN  [ heap |-> h,
          schedule |-> [ schedule EXCEPT !.fitness = Some(total) ],
          returned |-> total ]

\* what compute_schedule_fitness adds to the score of each activity, rule by
\* rule, and what each pair of CROSS_101_191 contributes
TermsOf(assignments) ==
    [ terms |->
        [ activity \in DOMAIN assignments |->
            LET room == assignments[activity].room
                time == assignments[activity].time
                fac  == assignments[activity].facilitator
            IN  [ room_size |-> RoomSizeTerm(activity, room),
                  preference |-> PreferenceTerm(activity, fac),
                  conflict |-> RoomTimeConflictTerm(assignments, room, time),
                  same_time |-> SameTimeLoadTerm(assignments, fac, time),
                  load |-> TotalLoadTerm(assignments, fac),
                  pair |-> PairTerms(activity, assignments),
                  cross |-> CrossTerms(activity, assignments) ] ],
      cross_pairs |->
        [ i \in DOMAIN CROSS_101_191 |->
            _score_cross_101_191(CROSS_101_191[i][1], CROSS_101_191[i][2],
                                 assignments) ] ]

InitFitness ==
    /\ pc = "built"
    /\ NoRun
    /\ initial_mutation_rate = 0
    /\ mutation_rate = 0
    /\ \E c \in ScheduleChoices :
          LET given == ChosenSchedule(c)
              other == ChosenSchedule(OtherChoice)
              st == StoreDicts(<< >>, given, DOMAIN given, << >>)
              st2 == StoreDicts(st.heap, other, DOMAIN other, << >>)
          IN  /\ heap = st2.heap
              /\ population = << Schedule(st.assignments), Schedule(st2.assignments) >>
    /\ children = << >>
    /\ drawn = << >>

\* the first compute_schedule_fitness(population[1])
FirstCall ==
    /\ pc = "built"
    /\ LET call == ScoreCall(heap, population[1])
       IN  /\ heap' = call.heap
           /\ population' = [ population EXCEPT ![1] = call.schedule ]
           /\ drawn' = TermsOf(Deref(heap, population[1]))
                         @@ [ returned |-> << call.returned >> ]
    /\ pc' = "scored"
    /\ UNCHANGED << args, mutation_rate, history, prev_avg, generations,
                    fitness_list, children, result, evaluated, variation_steps >>

\* compute_schedule_fitness(population[1]) once more
SecondCall ==
    /\ pc = "scored"
    /\ LET call == ScoreCall(heap, population[1])
       IN  /\ heap' = call.heap
           /\ population' = [ population EXCEPT ![1] = call.schedule ]
           /\ drawn' = [ drawn EXCEPT !.returned = Append(@, call.returned) ]
    /\ pc' = "rescored"
    /\ UNCHANGED << args, mutation_rate, history, prev_avg, generations,
                    fitness_list, children, result, evaluated, variation_steps >>

\* compute_violations(population[1])
Violations ==
    /\ pc = "rescored"
    /\ IF ViolationsRaise(Deref(heap, population[1]))
       THEN /\ pc' = "raised"
            /\ UNCHANGED result
       ELSE /\ pc' = "reported"
            /\ result' = Some(compute_violations(Deref(heap, population[1])))
    /\ UNCHANGED << drawn, args, heap, population, mutation_rate, history, prev_avg,
                    generations, fitness_list, children, evaluated, variation_steps >>

NextFitness ==
    \/ FirstCall
    \/ SecondCall
    \/ Violations

SpecFitness == InitFitness /\ [][NextFitness]_vars

Scored == pc \in { "scored", "rescored", "reported" }
ScoredAssignments == Deref(heap, population[1])

\* the returned fitness is the sum, over the activities, of what the rules
\* added to each
TermsAddUp ==
    drawn.returned[1] =
        SumOver(DOMAIN drawn.terms,
                [ a \in DOMAIN drawn.terms |->
                    LET t == drawn.terms[a]
                    IN  t.room_size + t.preference + t.conflict + t.same_time
                        + t.load + t.pair + t.cross ])

\* C16: with L the number of activities the activity's facilitator teaches in
\* the whole schedule, the total-load term of the activity is -0.5 if L > 4;
\* -0.4 if L < 3 and the facilitator is not Tyler; for Tyler 0 when L is 1 and
\* -0.4 when L is 2; 0 when 3 <= L <= 4.  Every activity of the facilitator
\* is charged, and the charges are part of the returned total.
C16_TotalLoadRule ==
    Scored =>
        LET Load(f) == Cardinality({ b \in DOMAIN ScoredAssignments :
                                       ScoredAssignments[b].facilitator = f })
            Rule(f) == IF Load(f) > 4 THEN -50
                       ELSE IF Load(f) >= 3 THEN 0
                       ELSE IF f # "Tyler" THEN -40
                       ELSE IF Load(f) = 1 THEN 0
                       ELSE -40
        IN  /\ \A a \in DOMAIN ScoredAssignments :
                   drawn.terms[a].load = Rule(ScoredAssignments[a].facilitator)
            /\ TermsAddUp

\* Tyler with one activity is not charged, Glen with one activity is, and
\* each of Zeldin's six activities is charged for the overload
C16_Witness ==
    /\ Scored
    /\ Cardinality({ a \in DOMAIN ScoredAssignments :
                       ScoredAssignments[a].facilitator = "Tyler" }) = 1
    /\ \E a \in DOMAIN ScoredAssignments :
         /\ ScoredAssignments[a].facilitator = "Tyler"
         /\ drawn.terms[a].load = 0
    /\ ScoredAssignments["SLA101B"].facilitator = "Glen"
    /\ drawn.terms["SLA101B"].load = -40
    /\ Cardinality({ a \in DOMAIN ScoredAssignments :
                       /\ ScoredAssignments[a].facilitator = "Zeldin"
                       /\ drawn.terms[a].load = -50 }) = 6

\* the activities of the scored schedule in the room and time slot of a
SharingWith(a) ==
    { b \in DOMAIN ScoredAssignments :
        /\ ScoredAssignments[b].room = ScoredAssignments[a].room
        /\ ScoredAssignments[b].time = ScoredAssignments[a].time }

\* C17: an activity incurs -0.5 for the room/time conflict if and only if at
\* least one other activity of the schedule has the same (room, time slot)
\* pair; when m >= 2 activities share one pair, their conflict terms take
\* 0.5 * m off the total (each pays, the penalty is not split).
C17_RoomTimeConflictRule ==
    Scored =>
        /\ \A a \in DOMAIN ScoredAssignments :
             /\ drawn.terms[a].conflict \in { -50, 0 }
             /\ (drawn.terms[a].conflict = -50 <=> SharingWith(a) # { a })
             /\ (Cardinality(SharingWith(a)) >= 2 =>
                   SumOver(SharingWith(a),
                           [ b \in DOMAIN ScoredAssignments |-> drawn.terms[b].conflict ])
                       = -50 * Cardinality(SharingWith(a)))
        /\ TermsAddUp

\* three sections in Roman 201 at 10 AM, each charged, next to an activity
\* that shares its room and time slot with nobody
C17_Witness ==
    /\ Scored
    /\ SharingWith("SLA101A") = { "SLA101A", "SLA101B", "SLA191A" }
    /\ \A a \in SharingWith("SLA101A") : drawn.terms[a].conflict = -50
    /\ SharingWith("SLA451") = { "SLA451" }
    /\ drawn.terms["SLA451"].conflict = 0

\* the position of a time slot in the day
SlotIndex(t) == CHOOSE i \in DOMAIN TIME_SLOTS : TIME_SLOTS[i] = t

\* the slots of two activities of the scored schedule are this far apart
SlotDistance(a, b) ==
    Abs(SlotIndex(ScoredAssignments[a].time) - SlotIndex(ScoredAssignments[b].time))

InBeachOrRomanBuilding(a) ==
    ScoredAssignments[a].room \in { "Beach 201", "Beach 301", "Roman 201", "Roman 216" }

\* what C18 says the combination (a101, a191) contributes
CrossRule(a101, a191) ==
    IF SlotDistance(a101, a191) = 0 THEN -25
    ELSE IF SlotDistance(a101, a191) = 1
         THEN IF InBeachOrRomanBuilding(a101) # InBeachOrRomanBuilding(a191)
              THEN 10 ELSE 50
    ELSE IF SlotDistance(a101, a191) = 2 THEN 25
    ELSE 0

DesignatedCombinations ==
    { << "SLA101A", "SLA191A" >>, << "SLA101A", "SLA191B" >>,
      << "SLA101B", "SLA191A" >>, << "SLA101B", "SLA191B" >> }

\* C18: each of the four designated (SLA101x, SLA191y) combinations
\* contributes to the total exactly once: -0.25 if the two activities are in
\* the same slot; +0.5 if their slot indices differ by 1, reduced to +0.1 if
\* exactly one of the two rooms is in a Beach or Roman building; +0.25 if the
\* indices differ by 2; 0 otherwise.
C18_CrossPairRule ==
    Scored =>
        /\ { CROSS_101_191[i] : i \in DOMAIN CROSS_101_191 } = DesignatedCombinations
        /\ Len(CROSS_101_191) = Cardinality(DesignatedCombinations)
        /\ \A i \in DOMAIN CROSS_101_191 :
               drawn.cross_pairs[i] = CrossRule(CROSS_101_191[i][1], CROSS_101_191[i][2])
        /\ \A a \in DOMAIN ScoredAssignments :
               drawn.terms[a].cross =
                   SumOver({ c \in DesignatedCombinations : c[1] = a },
                           [ c \in DesignatedCombinations |-> CrossRule(c[1], c[2]) ])
        /\ TermsAddUp

\* SLA101A in a Roman room one slot before SLA191A in a Loft room (+0.1) and
\* in the slot of SLA191B (-0.25); SLA101B five and four slots away (0)
C18_Witness ==
    /\ Scored
    /\ drawn.cross_pairs = << 10, -25, 0, 0 >>
    /\ drawn.terms["SLA101A"].cross = -15
    /\ drawn.terms["SLA101B"].cross = 0
    /\ drawn.terms["SLA191A"].cross = 0
    /\ drawn.terms["SLA191B"].cross = 0

\* what C19 says the two sections a and b of one course contribute
PairRule(a, b) ==
    IF SlotDistance(a, b) = 0 THEN -50
    ELSE IF SlotDistance(a, b) > 4 THEN 50
    ELSE 0

\* C19: each designated pair (SLA101A/SLA101B and SLA191A/SLA191B)
\* contributes to the total exactly once, in the score of its first-named
\* activity and never in that of the second: -0.5 if both sections are in the
\* same time slot, +0.5 if their slot indices differ by more than 4, 0
\* otherwise.
C19_PairSpacingRule ==
    Scored =>
        /\ drawn.terms["SLA101A"].pair = PairRule("SLA101A", "SLA101B")
        /\ drawn.terms["SLA191A"].pair = PairRule("SLA191A", "SLA191B")
        /\ \A a \in DOMAIN ScoredAssignments \ { "SLA101A", "SLA191A" } :
               drawn.terms[a].pair = 0
        /\ TermsAddUp

\* the SLA101 sections at 10 AM and 3 PM (+0.5), the SLA191 sections both at
\* 10 AM (-0.5)
C19_Witness ==
    /\ Scored
    /\ SlotDistance("SLA101A", "SLA101B") = 5
    /\ drawn.terms["SLA101A"].pair = 50
    /\ SlotDistance("SLA191A", "SLA191B") = 0
    /\ drawn.terms["SLA191A"].pair = -50
    /\ drawn.terms["SLA101B"].pair = 0
    /\ drawn.terms["SLA191B"].pair = 0

\* some activity of the scored schedule was charged this amount under this rule
Charged(rule, amount) ==
    \E a \in DOMAIN drawn.terms : drawn.terms[a][rule] = amount

\* some pair of CROSS_101_191 contributed one of these amounts
CrossContributed(amounts) ==
    \E i \in DOMAIN drawn.cross_pairs : drawn.cross_pairs[i] \in amounts

\* C20: for a complete schedule, each counter of compute_violations is
\* non-zero exactly when compute_schedule_fitness applied the corresponding
\* amount to at least one activity: room_conflicts and the room/time conflict
\* penalty; room_too_small, room_too_big_15, room_too_big_30 and the room-fit
\* penalties; facilitator_overload, facilitator_underload and the total-load
\* penalties (Tyler's exception included); facilitator_same_time_conflict and
\* the same-slot load penalty; the SLA101/SLA191 same-slot and distance
\* counters and the pair and cross-pair penalties; the two counters of the
\* cross-pair bonuses and those bonuses.
C20_ViolationsInLockStep ==
    pc = "reported" =>
        LET v == result[1]
        IN  /\ (v.room_conflicts # 0 <=> Charged("conflict", -50))
            /\ (v.room_too_small # 0 <=> Charged("room_size", -50))
            /\ (v.room_too_big_15 # 0 <=> Charged("room_size", -20))
            /\ (v.room_too_big_30 # 0 <=> Charged("room_size", -40))
            /\ (v.facilitator_overload # 0 <=> Charged("load", -50))
            /\ (v.facilitator_underload # 0 <=> Charged("load", -40))
            /\ (v.facilitator_same_time_conflict # 0 <=> Charged("same_time", -20))
            /\ (v.sla101_same_slot # 0 <=> drawn.terms["SLA101A"].pair = -50)
            /\ (v.sla191_same_slot # 0 <=> drawn.terms["SLA191A"].pair = -50)
            /\ (v.sla101_191_same_slot # 0 <=> CrossContributed({ -25 }))
            /\ (v.sla101_191_distance_issue # 0 <=> CrossContributed({ 10 }))
            /\ (v.sla101_191_consecutive_ok # 0 <=> CrossContributed({ 50, 10 }))
            /\ (v.sla101_191_one_hour_gap # 0 <=> CrossContributed({ 25 }))

\* a report with no underload although Tyler teaches one activity only, with
\* an overload and a room conflict, and with no ill-fitting room
C20_Witness ==
    /\ pc = "reported"
    /\ Cardinality({ a \in DOMAIN ScoredAssignments :
                       ScoredAssignments[a].facilitator = "Tyler" }) = 1
    /\ result[1].facilitator_underload = 0
    /\ ~Charged("load", -40)
    /\ result[1].facilitator_overload = 1
    /\ Charged("load", -50)
    /\ result[1].room_conflicts = 1
    /\ Charged("conflict", -50)
    /\ result[1].room_too_small = 0
    /\ result[1].room_too_big_15 = 0
    /\ result[1].room_too_big_30 = 0
    /\ result[1].facilitator_same_time_conflict # 0
    /\ Charged("same_time", -20)

\* C21: in a run with 1 <= elitism_count <= population_size the best fitness
\* recorded in the history never decreases from one generation to the next,
\* and the fitness of the returned best_schedule is at least the best fitness
\* of the last GenerationRecord.
C21_BestNeverDecreases ==
    (1 <= elitism_count /\ elitism_count <= population_size) =>
        /\ \A g \in 1..(Len(history) - 1) : history[g].best <= history[g + 1].best
        /\ (pc = "done" /\ result[1].history # << >> =>
              /\ result[1].best_schedule.fitness # NoneOpt
              /\ result[1].best_schedule.fitness[1]
                     >= result[1].history[Len(result[1].history)].best)

\* a run with one elite whose best fitness rose from the first generation to
\* the second, and again in the population built after the last record
C21_Witness ==
    /\ pc = "done"
    /\ elitism_count = 1
    /\ population_size = 2
    /\ Len(result[1].history) = 2
    /\ result[1].history[1].best < result[1].history[2].best
    /\ result[1].history[2].best < result[1].best_schedule.fitness[1]

====
